---- MODULE Spec2Model ----
(***************************************************************************)
(* Model of the Indico MCP server: the layered package (src/src/*.py, run  *)
(* by src/main.py) and the flat script (src/indico_mcp.py).  The variable  *)
(* impl says which of the two deployments is running.                      *)
(***************************************************************************)
EXTENDS Integers, Sequences, FiniteSets, TLC

VARIABLES impl, env, today, cache, hits, misses, sent, calls, last, served, used, fin, fout, thr

vars == <<impl, env, today, cache, hits, misses, sent, calls, last, served, used, fin, fout, thr>>

Impls == {"modular", "legacy"}

(***************************************************************************)
(* Configuration (src/src/config.py, src/indico_mcp.py class Config)       *)
(***************************************************************************)
MAX_LIMIT == 500
FETCH_MULTIPLIER == 10
MIN_FETCH_LIMIT == 100
MAX_RANGE_DAYS == 365
MAX_KEYWORD_LEN == 200
SEARCH_DEFAULT_DAYS == 30
UPCOMING_DEFAULT_DAYS == 7

\* CACHE_SIZE is read from the environment (default 128); the model runs a small cache.
CACHE_SIZE == 2

(***************************************************************************)
(* Bounds of the model                                                     *)
(***************************************************************************)
\* ordinal of datetime.date.max: the last representable calendar day
MaxDay == 400
\* longest record list the upstream returns
MaxRecs == 2
\* number of tool calls in one run of the server
MaxCalls == 3
\* the clock's reading at start-up, and how many midnights a run may cross
Today0 == 10
MaxTicks == 1
\* number of threads calling fetch_events concurrently
NumThreads == 2

Max(a, b) == IF a >= b THEN a ELSE b
Min(a, b) == IF a <= b THEN a ELSE b

\* Optional[int]
None == [some |-> FALSE, v |-> 0]
Some(n) == [some |-> TRUE, v |-> n]

(***************************************************************************)
(* Strings: sequences of characters over a small alphabet with two cases.  *)
(***************************************************************************)
char_lower(c) == CASE c = "H" -> "h" [] c = "I" -> "i" [] OTHER -> c

\* str.lower()
lower(s) == [i \in 1..Len(s) |-> char_lower(s[i])]

RECURSIVE lstrip(_)
lstrip(s) == IF s # <<>> /\ Head(s) = " " THEN lstrip(Tail(s)) ELSE s

RECURSIVE rstrip(_)
rstrip(s) == IF s # <<>> /\ s[Len(s)] = " " THEN rstrip(SubSeq(s, 1, Len(s) - 1)) ELSE s

\* str.strip()
strip(s) == rstrip(lstrip(s))

\* Python's "sub in s" on strings
contains(s, sub) == \E i \in 0..(Len(s) - Len(sub)) : SubSeq(s, i + 1, i + Len(sub)) = sub

(***************************************************************************)
(* Date strings and dates.  A date is its day ordinal in 0..MaxDay.  A     *)
(* date argument is None, the empty string, a string strptime rejects, or  *)
(* a string strptime accepts: zero-padded ("2030-01-05", pad) or not       *)
(* ("2030-1-5"), both naming the same day.                                 *)
(***************************************************************************)
NoneStr == [k |-> "none", day |-> 0, pad |-> TRUE]
EmptyStr == [k |-> "empty", day |-> 0, pad |-> TRUE]
BadStr == [k |-> "bad", day |-> 0, pad |-> TRUE]
DateStr(d, p) == [k |-> "date", day |-> d, pad |-> p]

\* truth value of an Optional[str] in "if from_date:"
truthy(s) == s.k \notin {"none", "empty"}

\* datetime.strptime(s, "%Y-%m-%d").date(): %m and %d accept one or two digits
strptime(s) == [ok |-> s.k = "date", day |-> s.day]

\* date.isoformat(): always zero-padded
isoformat(d) == DateStr(d, TRUE)

\* date + timedelta(days=n): OverflowError past date.max
date_add(d, n) == IF d + n > MaxDay THEN [ok |-> FALSE, day |-> 0] ELSE [ok |-> TRUE, day |-> d + n]

CalcFail(e) == [ok |-> FALSE, err |-> e, start |-> NoneStr, end |-> NoneStr]

\* "Validate range" and the return of DateRange.calculate
validate_range_mut(start, end) == IF end < start THEN CalcFail("inverted") ELSE [ok |-> TRUE, err |-> "", start |-> isoformat(start), end |-> isoformat(end)]
validate_range(start, end) ==
    IF end < start THEN CalcFail("inverted")
    ELSE IF end - start > MAX_RANGE_DAYS THEN CalcFail("span")
    ELSE [ok |-> TRUE, err |-> "", start |-> isoformat(start), end |-> isoformat(end)]

\* "Parse start date": from_date if given, else the clock
parse_start(now, from_date) ==
    IF truthy(from_date) THEN strptime(from_date) ELSE [ok |-> TRUE, day |-> now]

\* the elif/else branches of "Parse end date" in src/src/utils.py
end_from_days_mut(default_days, start, days) == IF days.some THEN (IF days.v < 0 THEN [ok |-> FALSE, err |-> "days_negative", day |-> 0] ELSE IF date_add(start, days.v).ok THEN [ok |-> TRUE, err |-> "", day |-> start + days.v] ELSE [ok |-> FALSE, err |-> "overflow", day |-> 0]) ELSE (IF date_add(start, default_days).ok THEN [ok |-> TRUE, err |-> "", day |-> start + default_days] ELSE [ok |-> FALSE, err |-> "overflow", day |-> 0])
end_from_days(default_days, start, days) ==
    IF days.some
    THEN IF days.v < 0 THEN [ok |-> FALSE, err |-> "days_negative", day |-> 0]
         ELSE IF days.v > MAX_RANGE_DAYS THEN [ok |-> FALSE, err |-> "days_exceed", day |-> 0]
         ELSE IF date_add(start, days.v).ok THEN [ok |-> TRUE, err |-> "", day |-> start + days.v]
         ELSE [ok |-> FALSE, err |-> "overflow", day |-> 0]
    ELSE IF date_add(start, default_days).ok THEN [ok |-> TRUE, err |-> "", day |-> start + default_days]
         ELSE [ok |-> FALSE, err |-> "overflow", day |-> 0]

\* the same branches in src/indico_mcp.py: no days > 365 check
legacy_end_from_days(default_days, start, days) ==
    IF days.some
    THEN IF days.v < 0 THEN [ok |-> FALSE, err |-> "days_negative", day |-> 0]
         ELSE IF date_add(start, days.v).ok THEN [ok |-> TRUE, err |-> "", day |-> start + days.v]
         ELSE [ok |-> FALSE, err |-> "overflow", day |-> 0]
    ELSE IF date_add(start, default_days).ok THEN [ok |-> TRUE, err |-> "", day |-> start + default_days]
         ELSE [ok |-> FALSE, err |-> "overflow", day |-> 0]

\* "Parse end date": to_date if given, else days, else the default day-count
parse_end_mut(im, default_days, start, to_date, days) == IF days.some THEN (IF im = "modular" THEN end_from_days(default_days, start, days) ELSE legacy_end_from_days(default_days, start, days)) ELSE IF truthy(to_date) THEN (IF strptime(to_date).ok THEN [ok |-> TRUE, err |-> "", day |-> strptime(to_date).day] ELSE [ok |-> FALSE, err |-> "format_to", day |-> 0]) ELSE (IF im = "modular" THEN end_from_days(default_days, start, days) ELSE legacy_end_from_days(default_days, start, days))
parse_end(im, default_days, start, to_date, days) ==
    IF truthy(to_date)
    THEN IF strptime(to_date).ok THEN [ok |-> TRUE, err |-> "", day |-> strptime(to_date).day]
         ELSE [ok |-> FALSE, err |-> "format_to", day |-> 0]
    ELSE IF im = "modular" THEN end_from_days(default_days, start, days)
         ELSE legacy_end_from_days(default_days, start, days)

\* DateRange(default_days).calculate(from_date, to_date, days), with the clock reading now
calculate(im, default_days, now, from_date, to_date, days) ==
    LET s == parse_start(now, from_date) IN
    IF ~s.ok THEN CalcFail("format_from")
    ELSE LET e == parse_end(im, default_days, s.day, to_date, days) IN
         IF ~e.ok THEN CalcFail(e.err) ELSE validate_range(s.day, e.day)

(***************************************************************************)
(* Input validators (src/src/utils.py) and the flat script's counterparts  *)
(***************************************************************************)
validate_limit_mut(limit) == IF limit < 1 THEN [ok |-> FALSE, err |-> "limit", val |-> 0] ELSE [ok |-> TRUE, err |-> "", val |-> limit]
validate_limit(limit) ==
    IF limit < 1 THEN [ok |-> FALSE, err |-> "limit", val |-> 0]
    ELSE IF limit > MAX_LIMIT THEN [ok |-> TRUE, err |-> "", val |-> MAX_LIMIT]
    ELSE [ok |-> TRUE, err |-> "", val |-> limit]

validate_category_id(category_id) ==
    IF category_id < 0 THEN [ok |-> FALSE, err |-> "category", val |-> 0]
    ELSE [ok |-> TRUE, err |-> "", val |-> category_id]

validate_event_id(event_id) ==
    IF event_id < 1 THEN [ok |-> FALSE, err |-> "event_id", val |-> 0]
    ELSE [ok |-> TRUE, err |-> "", val |-> event_id]

sanitize_keyword(keyword) ==
    IF keyword = <<>> THEN [ok |-> FALSE, err |-> "keyword_empty", val |-> <<>>]
    ELSE IF strip(keyword) = <<>> THEN [ok |-> FALSE, err |-> "keyword_blank", val |-> <<>>]
    ELSE IF Len(strip(keyword)) > MAX_KEYWORD_LEN THEN [ok |-> FALSE, err |-> "keyword_long", val |-> <<>>]
    ELSE [ok |-> TRUE, err |-> "", val |-> strip(keyword)]

\* src/indico_mcp.py search_events: "if not keyword.strip(): raise"; the keyword itself is kept
legacy_check_keyword(keyword) ==
    IF strip(keyword) = <<>> THEN [ok |-> FALSE, err |-> "keyword_blank", val |-> <<>>]
    ELSE [ok |-> TRUE, err |-> "", val |-> keyword]

\* the fetch limit search_events of src/indico_mcp.py computes inline
legacy_fetch_limit(limit) == Min(Max(limit * FETCH_MULTIPLIER, MIN_FETCH_LIMIT), MAX_LIMIT)

calculate_fetch_limit_mut(requested_limit) == Max(requested_limit * FETCH_MULTIPLIER, MIN_FETCH_LIMIT)
calculate_fetch_limit(requested_limit) ==
    Min(Max(requested_limit * FETCH_MULTIPLIER, MIN_FETCH_LIMIT), MAX_LIMIT)

(***************************************************************************)
(* Raw upstream records and their normalization                            *)
(***************************************************************************)
\* a string-valued key of a raw record: missing, a string, or JSON null
NoStr == [some |-> FALSE, v |-> <<>>, null |-> FALSE]
SomeStr(x) == [some |-> TRUE, v |-> x, null |-> FALSE]
NullStr == [some |-> FALSE, v |-> <<>>, null |-> TRUE]

\* a raw record: the keys the handlers read, and whether it holds any other key
Raw(id, title, description, more) == [id |-> id, title |-> title, description |-> description, more |-> more]

\* truth value of a dict: an empty dict is falsy
is_empty(r) == ~r.id.some /\ ~r.title.some /\ ~r.description.some /\ ~r.description.null /\ ~r.more

\* the id of a normalized event: str(raw id) or "" in src/src/models.py, the raw
\* value or None in src/indico_mcp.py
IdStr(n) == [t |-> "str", n |-> n]
IdEmptyStr == [t |-> "str", n |-> -1]
IdInt(n) == [t |-> "int", n |-> n]
IdNone == [t |-> "none", n |-> -1]

\* None in place of a normalized event
\* (hasdesc: the result has a "description" key; descnull: its value is None)
NormNone == [absent |-> TRUE, id |-> IdNone, title |-> <<>>, hasdesc |-> FALSE, descnull |-> FALSE, description |-> <<>>]

\* dict.get(key, "") on an optional string field
get_str(f) == IF f.some THEN f.v ELSE <<>>

\* EventNormalizer.normalize followed by Event.to_dict (src/src/models.py): to_dict
\* writes the description key only when Event.description is not None
normalize(r, include_description) ==
    IF is_empty(r) THEN NormNone
    ELSE [absent |-> FALSE,
          id |-> IF r.id.some THEN IdStr(r.id.v) ELSE IdEmptyStr,
          title |-> get_str(r.title),
          hasdesc |-> include_description /\ ~r.description.null,
          descnull |-> FALSE,
          description |-> IF include_description THEN get_str(r.description) ELSE <<>>]

\* EventNormalizer.normalize of src/indico_mcp.py: no description, id as received
legacy_normalize(r) ==
    IF is_empty(r) THEN NormNone
    ELSE [absent |-> FALSE,
          id |-> IF r.id.some THEN IdInt(r.id.v) ELSE IdNone,
          title |-> get_str(r.title),
          hasdesc |-> FALSE,
          descnull |-> FALSE,
          description |-> <<>>]

\* EventNormalizer.normalize_list: records that normalize to None are dropped
normalize_list_mut(events, include_description) == [i \in 1..Len(events) |-> normalize(events[i], include_description)]
RECURSIVE normalize_list(_, _)
normalize_list(events, include_description) ==
    IF events = <<>> THEN <<>>
    ELSE LET e == normalize(Head(events), include_description) IN
         (IF e.absent THEN <<>> ELSE <<e>>) \o normalize_list(Tail(events), include_description)

\* [normalizer.normalize(e) for e in events] of src/indico_mcp.py
legacy_normalize_all(events) == [i \in 1..Len(events) |-> legacy_normalize(events[i])]

\* [event for event in events if keyword_lower in event.get("title", "").lower()]
RECURSIVE filter_by_keyword(_, _)
filter_by_keyword(events, keyword_lower) ==
    IF events = <<>> THEN <<>>
    ELSE (IF contains(lower(get_str(Head(events).title)), keyword_lower) THEN <<Head(events)>> ELSE <<>>)
         \o filter_by_keyword(Tail(events), keyword_lower)

\* filtered[:limit]
take(s, n) == SubSeq(s, 1, Min(n, Len(s)))

(***************************************************************************)
(* Upstream responses and IndicoClient._make_request                       *)
(***************************************************************************)
FailureKinds == {"timeout", "connection", "http404", "http403", "http400", "retries_exhausted", "other"}

OkResp(results) == [kind |-> "ok", results |-> results]
FailResp(k) == [kind |-> k, results |-> <<>>]

\* IndicoClient._make_request of src/src/client.py: what session.get and raise_for_status
\* raise is caught clause by clause and raised again as a ValueError with its own message
make_request_mut(resp) == IF resp.kind = "ok" THEN [ok |-> TRUE, err |-> "", exc |-> "", results |-> resp.results] ELSE IF resp.kind = "timeout" THEN [ok |-> FALSE, err |-> "timed out", exc |-> "requests.exceptions.Timeout", results |-> <<>>] ELSE [ok |-> FALSE, err |-> "Failed to fetch data", exc |-> "ValueError", results |-> <<>>]
make_request(resp) ==
    CASE resp.kind = "ok" -> [ok |-> TRUE, err |-> "", exc |-> "", results |-> resp.results]
      [] resp.kind = "timeout" -> [ok |-> FALSE, err |-> "Request timed out", exc |-> "ValueError", results |-> <<>>]
      [] resp.kind = "connection" -> [ok |-> FALSE, err |-> "Connection failed", exc |-> "ValueError", results |-> <<>>]
      [] resp.kind = "http404" -> [ok |-> FALSE, err |-> "Resource not found", exc |-> "ValueError", results |-> <<>>]
      [] resp.kind = "http403" -> [ok |-> FALSE, err |-> "Access forbidden", exc |-> "ValueError", results |-> <<>>]
      [] resp.kind = "http400" -> [ok |-> FALSE, err |-> "Server error", exc |-> "ValueError", results |-> <<>>]
      [] OTHER -> [ok |-> FALSE, err |-> "Failed to fetch data", exc |-> "ValueError", results |-> <<>>]

\* the try/except around session.get in src/indico_mcp.py: one message for every failure
legacy_request(resp, what) ==
    IF resp.kind = "ok" THEN [ok |-> TRUE, err |-> "", exc |-> "", results |-> resp.results]
    ELSE [ok |-> FALSE, err |-> what, exc |-> "ValueError", results |-> <<>>]

\* IndicoClient._setup_headers: whether an Authorization header is attached
setup_headers(im, e) == IF im = "legacy" THEN e.token ELSE FALSE

(***************************************************************************)
(* The lru_cache around IndicoClient.fetch_events                          *)
(***************************************************************************)
Key(cat, start, end, limit) == [cat |-> cat, start |-> start, end |-> end, limit |-> limit]
NoKey == [cat |-> -1, start |-> NoneStr, end |-> NoneStr, limit |-> 0]

EmptyFn == [x \in {} |-> 0]

lru_has_mut(c, key) == FALSE
lru_has(c, key) == \E i \in 1..Len(c) : c[i].key = key
lru_index(c, key) == CHOOSE i \in 1..Len(c) : c[i].key = key
lru_get(c, key) == c[lru_index(c, key)].val

\* a hit makes the entry the most recently used
lru_touch_mut(c, key) == c
lru_touch(c, key) ==
    LET i == lru_index(c, key) IN SubSeq(c, 1, i - 1) \o SubSeq(c, i + 1, Len(c)) \o <<c[i]>>

\* storing a result: nothing when the key was stored meanwhile, else evict the oldest if full
lru_put(c, key, val) ==
    IF lru_has(c, key) THEN c
    ELSE IF Len(c) >= CACHE_SIZE THEN Tail(c) \o <<[key |-> key, val |-> val]>>
    ELSE Append(c, [key |-> key, val |-> val])

\* an upstream request: session.get(url, params, headers); auth says whether the
\* headers carry an Authorization entry
NoRequest == [kind |-> "none", key |-> NoKey, id |-> 0, auth |-> FALSE]
ListRequest(key, auth) == [kind |-> "list", key |-> key, id |-> 0, auth |-> auth]
DetailRequest(id, auth) == [kind |-> "detail", key |-> NoKey, id |-> id, auth |-> auth]

\* the client's state as a call starts: the cache with its counters, the number of
\* requests sent so far, and the request the call sends (none yet)
ClientState == [cache |-> cache, hits |-> hits, misses |-> misses, sent |-> sent, req |-> NoRequest]

\* session.get: one more request on the wire
send(st, r) == [st EXCEPT !.sent = @ + 1, !.req = r]

\* the lru_cache wrapper up to the call of fetch_events' body, and the body up to the
\* request it sends: a hit returns the entry, a miss is counted and the request goes out
cache_lookup_mut(st, im, e, key) == [hit |-> FALSE, events |-> <<>>, st |-> send([st EXCEPT !.misses = @ + 1], ListRequest(key, setup_headers(im, e)))]
cache_lookup_flag(st, im, e, key) == IF e.enable_cache /\ lru_has(st.cache, key) THEN [hit |-> TRUE, events |-> lru_get(st.cache, key), st |-> [st EXCEPT !.cache = lru_touch(st.cache, key), !.hits = @ + 1]] ELSE [hit |-> FALSE, events |-> <<>>, st |-> send([st EXCEPT !.misses = @ + 1], ListRequest(key, setup_headers(im, e)))]
cache_lookup(st, im, e, key) ==
    IF lru_has(st.cache, key)
    THEN [hit |-> TRUE, events |-> lru_get(st.cache, key),
          st |-> [st EXCEPT !.cache = lru_touch(st.cache, key), !.hits = @ + 1]]
    ELSE [hit |-> FALSE, events |-> <<>>,
          st |-> send([st EXCEPT !.misses = @ + 1], ListRequest(key, setup_headers(im, e)))]

\* the body of fetch_events from the upstream's answer on, and the wrapper storing
\* what it returns: an exception stores nothing
fetch_complete_mut(st, im, key, resp) == [st |-> [st EXCEPT !.cache = lru_put(st.cache, key, IF resp.kind = "ok" THEN resp.results ELSE <<>>)], ok |-> resp.kind = "ok", err |-> IF resp.kind = "ok" THEN "" ELSE "failed", exc |-> IF resp.kind = "ok" THEN "" ELSE "ValueError", events |-> IF resp.kind = "ok" THEN resp.results ELSE <<>>]
fetch_complete(st, im, key, resp) ==
    LET r == IF im = "modular" THEN make_request(resp)
             ELSE legacy_request(resp, "Failed to fetch events from Indico") IN
    [st |-> [st EXCEPT !.cache = IF r.ok THEN lru_put(st.cache, key, r.results) ELSE @],
     ok |-> r.ok, err |-> r.err, exc |-> r.exc, events |-> r.results]

\* the cached IndicoClient.fetch_events run to its end, answered by resp on a miss
fetch_events(st, im, e, key, resp) ==
    LET a == cache_lookup(st, im, e, key) IN
    IF a.hit THEN [st |-> a.st, ok |-> TRUE, err |-> "", exc |-> "", events |-> a.events, fetched |-> FALSE]
    ELSE LET b == fetch_complete(a.st, im, key, resp) IN
         [st |-> b.st, ok |-> b.ok, err |-> b.err, exc |-> b.exc, events |-> b.events, fetched |-> TRUE]

\* IndicoClient.fetch_event_details: None when results is empty, else results[0]
fetch_event_details_mut(st, im, e, event_id, resp) == [st |-> send(st, DetailRequest(event_id, setup_headers(im, e))), ok |-> TRUE, err |-> "", exc |-> "", results |-> resp.results, found |-> resp.kind = "ok" /\ resp.results # <<>>, event |-> IF resp.kind = "ok" /\ resp.results # <<>> THEN resp.results[1] ELSE Raw(None, NoStr, NoStr, FALSE)]
fetch_event_details(st, im, e, event_id, resp) ==
    LET r == IF im = "modular" THEN make_request(resp)
             ELSE legacy_request(resp, "Failed to fetch event details") IN
    [st |-> send(st, DetailRequest(event_id, setup_headers(im, e))),
     ok |-> r.ok, err |-> r.err, exc |-> r.exc, results |-> r.results,
     found |-> r.ok /\ r.results # <<>>,
     event |-> IF r.ok /\ r.results # <<>> THEN r.results[1] ELSE Raw(None, NoStr, NoStr, FALSE)]

\* IndicoClient.clear_cache: lru_cache's cache_clear drops the entries and resets the
\* hit and miss counters
clear_cache_mut(st) == [st EXCEPT !.cache = <<>>]
clear_cache(st) == [st EXCEPT !.cache = <<>>, !.hits = 0, !.misses = 0]

\* IndicoClient.get_cache_info
get_cache_info(st) == [hits |-> st.hits, misses |-> st.misses, maxsize |-> CACHE_SIZE, currsize |-> Len(st.cache)]

(***************************************************************************)
(* The tools.  Each takes the client's state st, the environment e, the    *)
(* clock's reading now, its arguments and the upstream's answer resp to    *)
(* the request it may issue; it yields the client's new state and what     *)
(* the caller gets (out).                                                  *)
(***************************************************************************)
NoStats == [hits |-> 0, misses |-> 0, maxsize |-> 0, currsize |-> 0]

BlankLast ==
    [op |-> "none", ok |-> FALSE, err |-> "", exc |-> "", haskey |-> FALSE, key |-> NoKey, fetched |-> FALSE,
     resp |-> "none", raw |-> <<>>, result |-> <<>>, kw |-> <<>>, limit |-> 0, efflimit |-> 0,
     event_id |-> 0, notfound |-> FALSE, nfid |-> 0, event |-> NormNone,
     cache_enabled |-> FALSE, stats |-> NoStats, req |-> NoRequest]

\* the class of the exception a failed validation raises: ValueError, but for the
\* OverflowError of date + timedelta in DateRange.calculate
exc_of(err) == IF err = "overflow" THEN "OverflowError" ELSE "ValueError"

\* the caller's view of a call that failed validation
Invalid(base, err) == [base EXCEPT !.err = err, !.exc = exc_of(err)]

\* the caller's view of a failed or completed fetch_events call
Fetched(base, key, f, resp) ==
    [base EXCEPT !.haskey = TRUE, !.key = key, !.fetched = f.fetched, !.err = f.err, !.exc = f.exc,
                 !.resp = IF f.fetched THEN resp.kind ELSE "none"]

\* search_events of src/src/server.py
search_events(st, e, now, keyword, limit, category_id, days_ahead, from_date, to_date, resp) ==
    LET base == [BlankLast EXCEPT !.op = "search", !.kw = keyword, !.limit = limit]
        kw == sanitize_keyword(keyword)
        lim == validate_limit(limit)
        cat == validate_category_id(category_id)
        win == calculate("modular", SEARCH_DEFAULT_DAYS, now, from_date, to_date, days_ahead)
    IN  IF ~kw.ok THEN [st |-> st, out |-> Invalid(base, kw.err)]
        ELSE IF ~lim.ok THEN [st |-> st, out |-> Invalid(base, lim.err)]
        ELSE IF ~cat.ok THEN [st |-> st, out |-> Invalid(base, cat.err)]
        ELSE IF ~win.ok THEN [st |-> st, out |-> Invalid(base, win.err)]
        ELSE LET key == Key(cat.val, win.start, win.end, calculate_fetch_limit(lim.val))
                 f == fetch_events(st, "modular", e, key, resp)
                 got == [Fetched(base, key, f, resp) EXCEPT !.efflimit = lim.val]
             IN  IF ~f.ok THEN [st |-> f.st, out |-> got]
                 ELSE [st |-> f.st,
                       out |-> [got EXCEPT !.ok = TRUE, !.raw = f.events,
                                           !.result = normalize_list(take(filter_by_keyword(f.events, lower(kw.val)), lim.val), FALSE)]]

\* search_events of src/indico_mcp.py
legacy_search_events(st, e, now, keyword, limit, category_id, days_ahead, from_date, to_date, resp) ==
    LET base == [BlankLast EXCEPT !.op = "search", !.kw = keyword, !.limit = limit]
        lim == validate_limit(limit)
        kw == legacy_check_keyword(keyword)
        win == calculate("legacy", SEARCH_DEFAULT_DAYS, now, from_date, to_date, days_ahead)
    IN  IF ~lim.ok THEN [st |-> st, out |-> Invalid(base, lim.err)]
        ELSE IF ~kw.ok THEN [st |-> st, out |-> Invalid(base, kw.err)]
        ELSE IF ~win.ok THEN [st |-> st, out |-> Invalid(base, win.err)]
        ELSE LET fetch_limit == legacy_fetch_limit(lim.val)
                 key == Key(category_id, win.start, win.end, fetch_limit)
                 f == fetch_events(st, "legacy", e, key, resp)
                 got == [Fetched(base, key, f, resp) EXCEPT !.efflimit = lim.val]
             IN  IF ~f.ok THEN [st |-> f.st, out |-> got]
                 ELSE [st |-> f.st,
                       out |-> [got EXCEPT !.ok = TRUE, !.raw = f.events,
                                           !.result = legacy_normalize_all(take(filter_by_keyword(f.events, lower(kw.val)), lim.val))]]

\* upcoming_public of src/src/server.py
upcoming_public_mut(st, e, now, days, limit, category_id, from_date, to_date, resp) ==
    LET base == [BlankLast EXCEPT !.op = "upcoming", !.limit = limit]
        win == calculate("modular", UPCOMING_DEFAULT_DAYS, now, from_date, to_date, days)
        f == fetch_events(st, "modular", e, Key(category_id, win.start, win.end, limit), resp)
    IN  IF ~win.ok THEN [st |-> st, out |-> Invalid(base, win.err)]
        ELSE IF ~validate_limit(limit).ok THEN [st |-> f.st, out |-> Invalid(base, "limit")]
        ELSE IF ~validate_category_id(category_id).ok THEN [st |-> f.st, out |-> Invalid(base, "category")]
        ELSE [st |-> f.st, out |-> [Fetched(base, Key(category_id, win.start, win.end, limit), f, resp) EXCEPT !.efflimit = limit, !.ok = f.ok, !.raw = f.events, !.result = normalize_list(f.events, FALSE)]]
upcoming_public(st, e, now, days, limit, category_id, from_date, to_date, resp) ==
    LET base == [BlankLast EXCEPT !.op = "upcoming", !.limit = limit]
        lim == validate_limit(limit)
        cat == validate_category_id(category_id)
        win == calculate("modular", UPCOMING_DEFAULT_DAYS, now, from_date, to_date, days)
    IN  IF ~lim.ok THEN [st |-> st, out |-> Invalid(base, lim.err)]
        ELSE IF ~cat.ok THEN [st |-> st, out |-> Invalid(base, cat.err)]
        ELSE IF ~win.ok THEN [st |-> st, out |-> Invalid(base, win.err)]
        ELSE LET key == Key(cat.val, win.start, win.end, lim.val)
                 f == fetch_events(st, "modular", e, key, resp)
                 got == [Fetched(base, key, f, resp) EXCEPT !.efflimit = lim.val]
             IN  IF ~f.ok THEN [st |-> f.st, out |-> got]
                 ELSE [st |-> f.st,
                       out |-> [got EXCEPT !.ok = TRUE, !.raw = f.events,
                                           !.result = normalize_list(f.events, FALSE)]]

\* upcoming_public of src/indico_mcp.py
legacy_upcoming_public(st, e, now, days, limit, category_id, from_date, to_date, resp) ==
    LET base == [BlankLast EXCEPT !.op = "upcoming", !.limit = limit]
        lim == validate_limit(limit)
        win == calculate("legacy", UPCOMING_DEFAULT_DAYS, now, from_date, to_date, days)
    IN  IF ~lim.ok THEN [st |-> st, out |-> Invalid(base, lim.err)]
        ELSE IF ~win.ok THEN [st |-> st, out |-> Invalid(base, win.err)]
        ELSE LET key == Key(category_id, win.start, win.end, lim.val)
                 f == fetch_events(st, "legacy", e, key, resp)
                 got == [Fetched(base, key, f, resp) EXCEPT !.efflimit = lim.val]
             IN  IF ~f.ok THEN [st |-> f.st, out |-> got]
                 ELSE [st |-> f.st,
                       out |-> [got EXCEPT !.ok = TRUE, !.raw = f.events,
                                           !.result = legacy_normalize_all(f.events)]]

\* get_event_details of src/src/server.py: ok with notfound is the {"error": "No public
\* event found with ID <nfid>"} result, ok without it the normalized event
get_event_details(st, e, event_id, resp) ==
    LET base == [BlankLast EXCEPT !.op = "details", !.event_id = event_id]
        id == validate_event_id(event_id)
    IN  IF ~id.ok THEN [st |-> st, out |-> Invalid(base, id.err)]
        ELSE LET f == fetch_event_details(st, "modular", e, id.val, resp)
                 got == [base EXCEPT !.fetched = TRUE, !.resp = resp.kind, !.err = f.err, !.exc = f.exc, !.raw = f.results]
             IN  IF ~f.ok THEN [st |-> f.st, out |-> got]
                 ELSE IF ~f.found \/ is_empty(f.event)
                      THEN [st |-> f.st, out |-> [got EXCEPT !.ok = TRUE, !.notfound = TRUE, !.nfid = id.val]]
                 ELSE [st |-> f.st, out |-> [got EXCEPT !.ok = TRUE, !.event = normalize(f.event, TRUE)]]

\* get_event_details of src/indico_mcp.py
legacy_get_event_details(st, e, event_id, resp) ==
    LET base == [BlankLast EXCEPT !.op = "details", !.event_id = event_id]
    IN  IF event_id < 1 THEN [st |-> st, out |-> Invalid(base, "event_id")]
        ELSE LET f == fetch_event_details(st, "legacy", e, event_id, resp)
                 got == [base EXCEPT !.fetched = TRUE, !.resp = resp.kind, !.err = f.err, !.exc = f.exc, !.raw = f.results]
             IN  IF ~f.ok THEN [st |-> f.st, out |-> got]
                 ELSE IF ~f.found \/ is_empty(f.event)
                      THEN [st |-> f.st, out |-> [got EXCEPT !.ok = TRUE, !.notfound = TRUE, !.nfid = event_id]]
                 ELSE [st |-> f.st,
                       out |-> [got EXCEPT !.ok = TRUE,
                                           !.event = [legacy_normalize(f.event) EXCEPT !.hasdesc = TRUE, !.descnull = f.event.description.null,
                                                                                        !.description = get_str(f.event.description)]]]

\* server_status of src/src/server.py
server_status_mut(st, e) == [st |-> [st EXCEPT !.hits = @ + 1], out |-> [BlankLast EXCEPT !.op = "status", !.ok = TRUE, !.cache_enabled = e.enable_cache, !.stats = get_cache_info(st)]]
server_status(st, e) ==
    [st |-> st,
     out |-> [BlankLast EXCEPT !.op = "status", !.ok = TRUE, !.cache_enabled = e.enable_cache,
                               !.stats = get_cache_info(st)]]

(***************************************************************************)
(* Inputs                                                                  *)
(***************************************************************************)
SeqsUpTo(S, n) == UNION {[1..k -> S] : k \in 0..n}

\* titles "Hi", "x hi", "x"; a record without title; the empty record
R1 == Raw(Some(1), SomeStr(<<"H", "i">>), SomeStr(<<"d">>), TRUE)
R2 == Raw(Some(2), SomeStr(<<"x", " ", "h", "i">>), NoStr, TRUE)
R3 == Raw(Some(3), SomeStr(<<"x">>), NoStr, FALSE)
R4 == Raw(Some(4), NoStr, NoStr, TRUE)
R5 == Raw(None, NoStr, NoStr, FALSE)
Records == {R1, R2, R3, R4, R5}

\* a record whose description is JSON null
R6 == Raw(Some(6), SomeStr(<<"H", "i">>), NullStr, TRUE)

LongKeyword == [i \in 1..(MAX_KEYWORD_LEN + 1) |-> "x"]

\* which script runs, and the environment it reads
Deployments ==
    {<<"modular", [token |-> FALSE, enable_cache |-> TRUE]>>,
     <<"modular", [token |-> TRUE, enable_cache |-> FALSE]>>,
     <<"legacy", [token |-> TRUE, enable_cache |-> TRUE]>>}

\* the arguments and answers of a run of several calls
Keywords == {<<"h", "i">>, <<>>}
SearchLimits == {1}
UpcomingLimits == {0, MIN_FETCH_LIMIT}
Categories == {0}
DayCounts == {None}
FromDates == {NoneStr}
ToDates == {NoneStr, DateStr(Today0 + 20, TRUE)}
Responses == {OkResp(<<R1>>), OkResp(<<R3, R1>>), FailResp("timeout")}
EventIds == {0, 7}
DetailResponses == {OkResp(<<>>), OkResp(<<R1>>), FailResp("http404")}

\* the arguments and answers of a single call
WideKeywords == {<<>>, <<" ">>, <<"h", "i">>, <<" ", "h", "i">>, <<"H", "I", " ">>, <<"x">>, LongKeyword}
WideLimits == {-1, 0, 1, 2, MAX_LIMIT, MAX_LIMIT + 1}
WideCategories == {-1, 0}
WideDayCounts == {None, Some(-1), Some(0), Some(MAX_RANGE_DAYS + 1)}
WideFromDates == {NoneStr, BadStr, DateStr(Today0, TRUE)}
WideToDates == {NoneStr, DateStr(Today0 + 5, FALSE)}
WideResponses == {OkResp(rs) : rs \in SeqsUpTo(Records, MaxRecs)} \cup {FailResp(k) : k \in FailureKinds}
WideEventIds == {-1, 0, 1, 7}
WideDetailResponses == {OkResp(<<>>), OkResp(<<R1>>), OkResp(<<R4, R1>>), OkResp(<<R5>>), OkResp(<<R6>>)} \cup {FailResp(k) : k \in FailureKinds}

\* the inputs of the pure functions
NoInput == [f |-> "none", op |-> "none", now |-> 0, from_date |-> NoneStr, to_date |-> NoneStr, days |-> None, limit |-> 0]
PureFromDates == {NoneStr, EmptyStr, BadStr} \cup {DateStr(d, p) : d \in {0, 1, 2, MaxDay - 1, MaxDay}, p \in BOOLEAN}
PureToDates == {NoneStr, EmptyStr, BadStr} \cup {DateStr(d, p) : d \in {0, 1, 2, MAX_RANGE_DAYS, MAX_RANGE_DAYS + 1, MAX_RANGE_DAYS + 2, MaxDay}, p \in BOOLEAN}
PureDayCounts == {None} \cup {Some(n) : n \in {-1, 0, 1, MAX_RANGE_DAYS, MAX_RANGE_DAYS + 1}}
PureLimits == (-2..60) \cup {MAX_LIMIT - 1, MAX_LIMIT, MAX_LIMIT + 1, 2 * MAX_LIMIT}
CalcInputs ==
    {[f |-> "calculate", op |-> o, now |-> n, from_date |-> a, to_date |-> b, days |-> d, limit |-> 0] :
        o \in {"search", "upcoming"}, n \in {Today0, Today0 + 1}, a \in PureFromDates, b \in PureToDates, d \in PureDayCounts}
LimitInputs ==
    {[NoInput EXCEPT !.f = g, !.limit = x] : g \in {"validate_limit", "calculate_fetch_limit", "search_sizing"}, x \in PureLimits}

BlankOut ==
    [done |-> FALSE, calc |-> CalcFail(""), lim |-> [ok |-> FALSE, err |-> "", val |-> 0],
     again |-> [ok |-> FALSE, err |-> "", val |-> 0], fetch |-> 0]

(***************************************************************************)
(* The server: one tool call at a time                                     *)
(***************************************************************************)
Init ==
    /\ \E d \in Deployments : impl = d[1] /\ env = d[2]
    /\ today = Today0
    /\ cache = <<>>
    /\ hits = 0
    /\ misses = 0
    /\ sent = 0
    /\ calls = 0
    /\ last = BlankLast
    /\ served = EmptyFn
    /\ used = EmptyFn
    /\ fin = NoInput
    /\ fout = BlankOut
    /\ thr = <<>>

\* what the most recent successful upcoming_public call returned for each key whose
\* entry has been in the cache since (history, not program state)
track(sv, c, out) ==
    LET kept == {k \in DOMAIN sv : lru_has(c, k)}
        new == IF out.op = "upcoming" /\ out.ok /\ lru_has(c, out.key) THEN {out.key} ELSE {}
    IN  [k \in kept \cup new |-> IF k \in new THEN out.result ELSE sv[k]]

\* the number of the latest call that used each key's entry, by storing it or by
\* being served from it (history, not program state)
touch(u, n, out) ==
    IF out.haskey /\ (~out.fetched \/ out.resp = "ok")
    THEN [k \in DOMAIN u \cup {out.key} |-> IF k = out.key THEN n ELSE u[k]]
    ELSE u

\* the upstream bounds its answer at the limit asked for
Honoured(h, resp) == (resp.kind = "ok" /\ h.out.haskey) => Len(resp.results) <= h.out.key.limit

\* a call that sends nothing is taken once; a call that sends a request is taken with
\* each answer the upstream can give (whether it sends does not depend on the answer)
Apply(h) ==
    /\ cache' = h.st.cache
    /\ hits' = h.st.hits
    /\ misses' = h.st.misses
    /\ sent' = h.st.sent
    /\ last' = [h.out EXCEPT !.req = h.st.req]
    /\ calls' = calls + 1
    /\ served' = track(served, h.st.cache, h.out)
    /\ used' = touch(used, calls + 1, h.out)
    /\ UNCHANGED <<impl, env, today, fin, fout, thr>>

Probe == FailResp("other")

search_by(kw, lim, cat, d, f, t, resp) ==
    IF impl = "modular"
    THEN search_events(ClientState, env, today, kw, lim, cat, d, f, t, resp)
    ELSE legacy_search_events(ClientState, env, today, kw, lim, cat, d, f, t, resp)

upcoming_by(d, lim, cat, f, t, resp) ==
    IF impl = "modular"
    THEN upcoming_public(ClientState, env, today, d, lim, cat, f, t, resp)
    ELSE legacy_upcoming_public(ClientState, env, today, d, lim, cat, f, t, resp)

details_by(id, resp) ==
    IF impl = "modular"
    THEN get_event_details(ClientState, env, id, resp)
    ELSE legacy_get_event_details(ClientState, env, id, resp)

SearchEvents(Kws, Lims, Cats, Ds, Fs, Ts, Rs) ==
    /\ calls < MaxCalls
    /\ \E kw \in Kws, lim \in Lims, cat \in Cats, d \in Ds, f \in Fs, t \in Ts :
          IF search_by(kw, lim, cat, d, f, t, Probe).out.fetched
          THEN \E resp \in Rs : \E h \in {search_by(kw, lim, cat, d, f, t, resp)} : Honoured(h, resp) /\ Apply(h)
          ELSE \E h \in {search_by(kw, lim, cat, d, f, t, Probe)} : Apply(h)

UpcomingPublic(Lims, Cats, Ds, Fs, Ts, Rs) ==
    /\ calls < MaxCalls
    /\ \E lim \in Lims, cat \in Cats, d \in Ds, f \in Fs, t \in Ts :
          IF upcoming_by(d, lim, cat, f, t, Probe).out.fetched
          THEN \E resp \in Rs : \E h \in {upcoming_by(d, lim, cat, f, t, resp)} : Honoured(h, resp) /\ Apply(h)
          ELSE \E h \in {upcoming_by(d, lim, cat, f, t, Probe)} : Apply(h)

GetEventDetails(Ids, Rs) ==
    /\ calls < MaxCalls
    /\ \E id \in Ids :
          IF details_by(id, Probe).out.fetched
          THEN \E resp \in Rs : \E h \in {details_by(id, resp)} : Apply(h)
          ELSE \E h \in {details_by(id, Probe)} : Apply(h)

\* server_status is a tool of src/src/server.py only
ServerStatus ==
    /\ calls < MaxCalls
    /\ impl = "modular"
    /\ \E h \in {server_status(ClientState, env)} : Apply(h)

\* midnight passes: datetime.now().date() moves on
Tick ==
    /\ today < Today0 + MaxTicks
    /\ today' = today + 1
    /\ UNCHANGED <<impl, env, cache, hits, misses, sent, calls, last, served, used, fin, fout, thr>>

Search == SearchEvents(Keywords, SearchLimits, Categories, DayCounts, FromDates, ToDates, Responses)
Upcoming == UpcomingPublic(UpcomingLimits, Categories, DayCounts, FromDates, ToDates, Responses)
Details == GetEventDetails(EventIds, DetailResponses)

Next == Search \/ Upcoming \/ Details \/ ServerStatus \/ Tick

Spec == Init /\ [][Next]_vars

(***************************************************************************)
(* One call of a tool on the freshly started server, over wide arguments   *)
(***************************************************************************)
WideSearch == calls = 0 /\ SearchEvents(WideKeywords, WideLimits, WideCategories, WideDayCounts, WideFromDates, WideToDates, WideResponses)
WideUpcoming == calls = 0 /\ UpcomingPublic(WideLimits, WideCategories, WideDayCounts, WideFromDates, WideToDates, WideResponses)
WideDetails == calls = 0 /\ GetEventDetails(WideEventIds, WideDetailResponses)

CallNext == WideSearch \/ WideUpcoming \/ WideDetails

CallSpec == Init /\ [][CallNext]_vars

(***************************************************************************)
(* Two calls in a row: a first call that may fill the cache, then a call   *)
(* of any tool over wide arguments                                         *)
(***************************************************************************)
SecondLimits == WideLimits \cup {MIN_FETCH_LIMIT}
SecondToDates == WideToDates \cup {DateStr(Today0 + 20, TRUE)}
SecondFromDates == WideFromDates \cup {DateStr(Today0 + 30, TRUE)}
SecondDayCounts == WideDayCounts \cup {Some(SEARCH_DEFAULT_DAYS)}

FirstSearch == calls = 0 /\ SearchEvents(Keywords, SearchLimits, Categories, DayCounts, FromDates, ToDates, Responses)
FirstUpcoming == calls = 0 /\ UpcomingPublic(UpcomingLimits, Categories, DayCounts, FromDates, ToDates, Responses)
ThenSearch == calls = 1 /\ SearchEvents(WideKeywords, SecondLimits, WideCategories, SecondDayCounts, SecondFromDates, SecondToDates, Responses)
ThenUpcoming == calls = 1 /\ UpcomingPublic(SecondLimits, WideCategories, SecondDayCounts, SecondFromDates, SecondToDates, Responses)
ThenDetails == calls = 1 /\ GetEventDetails(WideEventIds, DetailResponses)

SeqNext == FirstSearch \/ FirstUpcoming \/ ThenSearch \/ ThenUpcoming \/ ThenDetails

SeqSpec == Init /\ [][SeqNext]_vars

(***************************************************************************)
(* A run long enough to fill the cache, use an entry again and overflow it *)
(***************************************************************************)
MaxFetches == CACHE_SIZE + 2
CacheCategories == 0..CACHE_SIZE
CacheResponses == {OkResp(<<R1>>), FailResp("timeout")}

CacheSearch ==
    /\ calls < MaxFetches
    /\ \E cat \in CacheCategories, resp \in CacheResponses :
          \E h \in {search_by(<<"h", "i">>, 1, cat, None, NoneStr, NoneStr, resp)} : Apply(h)

CacheUpcoming ==
    /\ calls < MaxFetches
    /\ \E cat \in CacheCategories, resp \in CacheResponses :
          \E h \in {upcoming_by(Some(SEARCH_DEFAULT_DAYS), MIN_FETCH_LIMIT, cat, NoneStr, NoneStr, resp)} : Apply(h)

CacheNext == CacheSearch \/ CacheUpcoming

CacheSpec == Init /\ [][CacheNext]_vars

(***************************************************************************)
(* The same run with the embedding program calling client.clear_cache()    *)
(* between the tool calls (src/src only: the flat script has no such       *)
(* method)                                                                 *)
(***************************************************************************)
ClearCache ==
    /\ calls < MaxFetches
    /\ impl = "modular"
    /\ \E h \in {[st |-> clear_cache(ClientState), out |-> [BlankLast EXCEPT !.op = "clear", !.ok = TRUE]]} : Apply(h)

ClearNext == CacheSearch \/ CacheUpcoming \/ ClearCache

ClearSpec == Init /\ [][ClearNext]_vars

(***************************************************************************)
(* The pure functions, applied to inputs drawn at the start                *)
(***************************************************************************)
PureInit ==
    /\ impl \in Impls
    /\ env = [token |-> FALSE, enable_cache |-> TRUE]
    /\ today = Today0
    /\ cache = <<>>
    /\ hits = 0
    /\ misses = 0
    /\ sent = 0
    /\ calls = 0
    /\ last = BlankLast
    /\ served = EmptyFn
    /\ used = EmptyFn
    /\ fin \in CalcInputs \cup LimitInputs
    /\ fout = BlankOut
    /\ thr = <<>>

PureFrame == UNCHANGED <<impl, env, today, cache, hits, misses, sent, calls, last, served, used, fin, thr>>

\* DateRange(default_days=30) in search_events, DateRange(default_days=7) in upcoming_public
default_days_of(op) == IF op = "search" THEN SEARCH_DEFAULT_DAYS ELSE UPCOMING_DEFAULT_DAYS

DoCalculate ==
    /\ fin.f = "calculate" /\ ~fout.done
    /\ fout' = [fout EXCEPT !.done = TRUE,
                            !.calc = calculate(impl, default_days_of(fin.op), fin.now, fin.from_date, fin.to_date, fin.days)]
    /\ PureFrame

\* validate_limit, and validate_limit again on what it returned
DoValidateLimit ==
    /\ fin.f = "validate_limit" /\ ~fout.done
    /\ LET r == validate_limit(fin.limit) IN
       fout' = [fout EXCEPT !.done = TRUE, !.lim = r,
                            !.again = IF r.ok THEN validate_limit(r.val) ELSE r]
    /\ PureFrame

DoCalculateFetchLimit ==
    /\ fin.f = "calculate_fetch_limit" /\ ~fout.done
    /\ fout' = [fout EXCEPT !.done = TRUE, !.fetch = calculate_fetch_limit(fin.limit)]
    /\ PureFrame

\* how search_events sizes its fetch: validate_limit, then the fetch limit of the result
DoSearchSizing ==
    /\ fin.f = "search_sizing" /\ ~fout.done
    /\ LET r == validate_limit(fin.limit) IN
       fout' = [fout EXCEPT !.done = TRUE, !.lim = r,
                            !.fetch = IF ~r.ok THEN 0
                                      ELSE IF impl = "modular" THEN calculate_fetch_limit(r.val)
                                      ELSE legacy_fetch_limit(r.val)]
    /\ PureFrame

PureNext == DoCalculate \/ DoValidateLimit \/ DoCalculateFetchLimit \/ DoSearchSizing

PureSpec == PureInit /\ [][PureNext]_vars

(***************************************************************************)
(* Threads calling client.fetch_events concurrently.  The lru_cache        *)
(* wrapper holds no lock while the wrapped function runs, so a call is two *)
(* steps: the lookup (with the request going out on a miss) and the        *)
(* arrival of the answer (with the result stored).                         *)
(***************************************************************************)
Threads == 1..NumThreads

ConcKeys == {Key(0, isoformat(Today0), isoformat(Today0 + d), MIN_FETCH_LIMIT) : d \in {UPCOMING_DEFAULT_DAYS, SEARCH_DEFAULT_DAYS}}

IdleThread == [pc |-> "idle", key |-> NoKey, ok |-> FALSE, events |-> <<>>]

ConcInit ==
    /\ \E d \in Deployments : impl = d[1] /\ env = d[2]
    /\ today = Today0
    /\ cache = <<>>
    /\ hits = 0
    /\ misses = 0
    /\ sent = 0
    /\ calls = 0
    /\ last = BlankLast
    /\ served = EmptyFn
    /\ used = EmptyFn
    /\ fin = NoInput
    /\ fout = BlankOut
    /\ thr = [t \in Threads |-> IdleThread]

ConcFrame == UNCHANGED <<impl, env, today, last, served, used, fin, fout>>

\* a thread enters fetch_events
FetchEnter(t) ==
    /\ thr[t].pc = "idle"
    /\ calls < MaxCalls
    /\ \E key \in ConcKeys :
          LET a == cache_lookup(ClientState, impl, env, key) IN
          /\ cache' = a.st.cache
          /\ hits' = a.st.hits
          /\ misses' = a.st.misses
          /\ sent' = a.st.sent
          /\ thr' = [thr EXCEPT ![t] = IF a.hit THEN [pc |-> "done", key |-> key, ok |-> TRUE, events |-> a.events]
                                       ELSE [pc |-> "inflight", key |-> key, ok |-> FALSE, events |-> <<>>]]
    /\ calls' = calls + 1
    /\ ConcFrame

\* the upstream answers a thread's request
FetchAnswer(t) ==
    /\ thr[t].pc = "inflight"
    /\ \E resp \in Responses :
          LET b == fetch_complete(ClientState, impl, thr[t].key, resp) IN
          /\ cache' = b.st.cache
          /\ thr' = [thr EXCEPT ![t] = [pc |-> "done", key |-> thr[t].key, ok |-> b.ok, events |-> b.events]]
    /\ UNCHANGED <<hits, misses, sent, calls>>
    /\ ConcFrame

\* the caller takes the result
FetchLeave(t) ==
    /\ thr[t].pc = "done"
    /\ thr' = [thr EXCEPT ![t] = IdleThread]
    /\ UNCHANGED <<cache, hits, misses, sent, calls>>
    /\ ConcFrame

ConcNext == \E t \in Threads : FetchEnter(t) \/ FetchAnswer(t) \/ FetchLeave(t)

ConcSpec == ConcInit /\ [][ConcNext]_vars

(***************************************************************************)
(* Properties                                                              *)
(***************************************************************************)

\* C1: once an upcoming_public call has succeeded, a later upcoming_public call with the
\* same effective parameters (the same cache key), made while the entry is still cached,
\* sends nothing upstream, returns the events that call returned, and raises the hits
\* counter of get_cache_info (server_status().cache_stats) by exactly one.
C1_RepeatedUpcomingIsCacheHit ==
    [][(calls' = calls + 1 /\ last'.op = "upcoming" /\ last'.haskey /\ last'.key \in DOMAIN served)
        => /\ sent' = sent
           /\ last'.ok /\ ~last'.fetched
           /\ last'.result = served[last'.key]
           /\ get_cache_info(ClientState)'.hits = get_cache_info(ClientState).hits + 1
           /\ get_cache_info(ClientState)'.misses = get_cache_info(ClientState).misses]_vars

\* a repeated upcoming_public() over the default window was served from the cache
C1_Witness ==
    /\ last.op = "upcoming" /\ last.ok /\ ~last.fetched
    /\ last.key.end = isoformat(Today0 + UPCOMING_DEFAULT_DAYS)
    /\ last.result # <<>>
    /\ hits = 1 /\ misses = 1 /\ calls = 2

\* C2: single-flight: no two callers of fetch_events have an upstream request for the
\* same key in flight at once, so concurrent misses of one key send one request.
C2_SingleFlight ==
    \A t1, t2 \in Threads :
        (thr[t1].pc = "inflight" /\ thr[t2].pc = "inflight" /\ thr[t1].key = thr[t2].key) => t1 = t2

\* the records of raw with a title containing keyword k, compared in lower case, in order
RECURSIVE MatchingRecords(_, _)
MatchingRecords(raw, k) ==
    IF raw = <<>> THEN <<>>
    ELSE (IF Head(raw).title.some /\ contains(lower(Head(raw).title.v), lower(k)) THEN <<Head(raw)>> ELSE <<>>)
         \o MatchingRecords(Tail(raw), k)

FirstN(s, n) == [i \in 1..(IF n < Len(s) THEN n ELSE Len(s)) |-> s[i]]

\* the normalization the running script applies to a record of a list result
NormalizedBy(im, r) == IF im = "modular" THEN normalize(r, FALSE) ELSE legacy_normalize(r)

\* C3: search_events returns the normalization of the first L fetched records whose
\* title contains the trimmed keyword, case-insensitively and in upstream order, where
\* L is the clamped limit; a record without title never matches; at most L are returned.
C3_SearchResult ==
    (last.op = "search" /\ last.ok) =>
        LET L == IF last.limit > MAX_LIMIT THEN MAX_LIMIT ELSE last.limit
            want == FirstN(MatchingRecords(last.raw, strip(last.kw)), L)
        IN  /\ last.result = [i \in 1..Len(want) |-> NormalizedBy(impl, want[i])]
            /\ Len(last.result) <= L

\* C3 for the layered package alone
C3_SearchResultModular == impl = "modular" => C3_SearchResult

\* the upstream kinds that are a failed fetch: everything but an answer
RequestFailures == {"timeout", "connection", "http403", "http400", "retries_exhausted", "other"}

C5_NotFoundOn404 ==
    (last.op = "details" /\ last.fetched /\ last.resp = "http404") => (last.ok /\ last.notfound)


\* the inputs of a finished calculate call, and what it returned
Calculated == fout.done /\ fin.f = "calculate"

\* a date argument is given when it is a non-empty string
Given(x) == x.k \notin {"none", "empty"}

\* the start the arguments resolve to: from_date if given, else the clock's date
StartResolves == ~Given(fin.from_date) \/ fin.from_date.k = "date"
ResolvedStart == IF Given(fin.from_date) THEN fin.from_date.day ELSE fin.now

\* the end the arguments resolve to: to_date, else start + days, else start + default
DefaultDays == IF fin.op = "search" THEN 30 ELSE 7
EndResolves == ~Given(fin.to_date) \/ fin.to_date.k = "date"
ResolvedEnd ==
    IF Given(fin.to_date) THEN fin.to_date.day
    ELSE IF fin.days.some THEN ResolvedStart + fin.days.v
    ELSE ResolvedStart + DefaultDays

\* the day a returned ISO string names
DayOf(x) == strptime(x).day

\* C6: a window calculate returns has end >= start and spans at most 365 days; when the
\* window the arguments resolve to is inverted or longer than 365 days, calculate fails.
C6_WindowInvariant ==
    Calculated =>
        /\ fout.calc.ok => /\ fout.calc.start.k = "date" /\ fout.calc.end.k = "date"
                           /\ DayOf(fout.calc.end) >= DayOf(fout.calc.start)
                           /\ DayOf(fout.calc.end) - DayOf(fout.calc.start) <= 365
        /\ (StartResolves /\ EndResolves /\ (ResolvedEnd < ResolvedStart \/ ResolvedEnd - ResolvedStart > 365))
              => (~fout.calc.ok /\ fout.calc.start = NoneStr /\ fout.calc.end = NoneStr)

\* a window of exactly 365 days was returned
C6_Witness ==
    Calculated /\ fout.calc.ok /\ DayOf(fout.calc.end) - DayOf(fout.calc.start) = 365

\* C7 as claimed: with to_date given, (from_date, to_date) comes back unchanged when
\* to_date >= from_date and the span is at most 365 days, days being ignored; else with
\* days >= 0 the end is start + days; else the end is start + 30 (search) or 7 (upcoming).
C7_ResolutionOrderAsClaimed ==
    Calculated =>
        /\ (Given(fin.to_date) /\ Given(fin.from_date) /\ StartResolves /\ EndResolves
            /\ ResolvedEnd >= ResolvedStart /\ ResolvedEnd - ResolvedStart <= 365)
              => (fout.calc.ok /\ fout.calc.start = fin.from_date /\ fout.calc.end = fin.to_date)
        /\ (~Given(fin.to_date) /\ StartResolves /\ fin.days.some /\ fin.days.v >= 0)
              => (fout.calc.ok /\ DayOf(fout.calc.end) = ResolvedStart + fin.days.v)
        /\ (~Given(fin.to_date) /\ StartResolves /\ ~fin.days.some)
              => (fout.calc.ok /\ DayOf(fout.calc.end) = ResolvedStart + DefaultDays)

\* C7, amended: with to_date given, the result names the days of (start, to_date) in
\* zero-padded ISO form (the arguments themselves when they are zero-padded) whenever
\* to_date >= start and the span is at most 365 days, days being ignored; else with
\* 0 <= days <= 365 the end is start + days and with days > 365 the call fails; else the
\* end is start + 30 (search) or 7 (upcoming); start + days and start + default must be
\* dates no later than date.max.
C7_ResolutionOrder ==
    Calculated =>
        /\ (Given(fin.to_date) /\ StartResolves /\ EndResolves
            /\ ResolvedEnd >= ResolvedStart /\ ResolvedEnd - ResolvedStart <= 365)
              => /\ fout.calc.ok
                 /\ fout.calc.start = isoformat(ResolvedStart) /\ fout.calc.end = isoformat(fin.to_date.day)
                 /\ (Given(fin.from_date) /\ fin.from_date.pad) => fout.calc.start = fin.from_date
                 /\ fin.to_date.pad => fout.calc.end = fin.to_date
        /\ (~Given(fin.to_date) /\ StartResolves /\ fin.days.some /\ fin.days.v >= 0 /\ fin.days.v <= 365
            /\ ResolvedStart + fin.days.v <= MaxDay)
              => (fout.calc.ok /\ fout.calc.start = isoformat(ResolvedStart)
                  /\ fout.calc.end = isoformat(ResolvedStart + fin.days.v))
        /\ (~Given(fin.to_date) /\ StartResolves /\ fin.days.some /\ fin.days.v > 365) => ~fout.calc.ok
        /\ (~Given(fin.to_date) /\ StartResolves /\ ~fin.days.some /\ ResolvedStart + DefaultDays <= MaxDay)
              => (fout.calc.ok /\ fout.calc.start = isoformat(ResolvedStart)
                  /\ fout.calc.end = isoformat(ResolvedStart + DefaultDays))

\* to_date was given without zero padding, together with a negative days, and the window came back
C7_Witness ==
    /\ Calculated /\ fout.calc.ok
    /\ fin.to_date.k = "date" /\ ~fin.to_date.pad /\ fin.days.some /\ fin.days.v < 0
    /\ fout.calc.end = isoformat(fin.to_date.day)

\* C8 as claimed: calculate fails with an invalid-range error for the day-count whenever
\* days is negative, whatever from_date and to_date are, and whenever days > 365.
C8_DaysRejectedAsClaimed ==
    (Calculated /\ fin.days.some /\ (fin.days.v < 0 \/ fin.days.v > 365))
        => (~fout.calc.ok /\ fout.calc.err \in {"days_negative", "days_exceed"})

\* C8, amended: days is examined only when to_date is not given and the start resolves.
\* Then a negative days fails with the day-count error in both scripts; days > 365 fails
\* with the day-count error before the window is built in src/src/utils.py, and in
\* src/indico_mcp.py fails later, in the window-length check or with an overflow of the
\* date.  With to_date given, no day-count error is raised.
C8_DaysRejected ==
    Calculated =>
        /\ (~Given(fin.to_date) /\ StartResolves /\ fin.days.some /\ fin.days.v < 0)
              => (~fout.calc.ok /\ fout.calc.err = "days_negative")
        /\ (~Given(fin.to_date) /\ StartResolves /\ fin.days.some /\ fin.days.v > 365)
              => /\ ~fout.calc.ok
                 /\ impl = "modular" => fout.calc.err = "days_exceed"
                 /\ impl = "legacy" => fout.calc.err \in {"span", "overflow"}
        /\ Given(fin.to_date) => fout.calc.err \notin {"days_negative", "days_exceed"}

\* days = 366 was rejected for the day-count itself
C8_Witness ==
    Calculated /\ impl = "modular" /\ fin.days = Some(366) /\ ~Given(fin.to_date) /\ fout.calc.err = "days_exceed"

\* C9: validate_limit fails below 1, returns the limit unchanged from 1 to MAX_LIMIT and
\* MAX_LIMIT above it; validating its result again changes nothing; search_events and
\* upcoming_public return at most the validated limit, so at most MAX_LIMIT, events.
C9_LimitClamped ==
    /\ (last.op \in {"search", "upcoming"} /\ last.limit < 1) => (~last.ok /\ ~last.haskey)
    /\ (last.op = "upcoming" /\ last.limit < 1) => last.err = "limit"
    /\ (last.op \in {"search", "upcoming"} /\ last.haskey) =>
          /\ last.limit >= 1
          /\ last.efflimit = (IF last.limit > 500 THEN 500 ELSE last.limit)
          /\ validate_limit(last.efflimit) = [ok |-> TRUE, err |-> "", val |-> last.efflimit]
    /\ (last.op \in {"search", "upcoming"} /\ last.ok) =>
          (Len(last.result) <= last.efflimit /\ Len(last.result) <= 500)

\* a limit above MAX_LIMIT was clamped, not rejected, and the call went through
C9_Witness ==
    last.op = "upcoming" /\ last.ok /\ last.limit = 501 /\ last.efflimit = 500 /\ last.key.limit = 500 /\ Len(last.result) = MaxRecs

\* C10: calculate_fetch_limit(x) = min(max(10 x, 100), 500): never above MAX_LIMIT,
\* MIN_FETCH_LIMIT for x = 1, at least L for every limit L in 1..MAX_LIMIT; the limit
\* search_events sends upstream is never below the number of events it may return.
C10_FetchLimit ==
    /\ (fout.done /\ fin.f = "calculate_fetch_limit") =>
          LET x == fin.limit
              m == IF x * 10 >= 100 THEN x * 10 ELSE 100
          IN  /\ fout.fetch = (IF m <= 500 THEN m ELSE 500)
              /\ fout.fetch <= MAX_LIMIT
              /\ x = 1 => fout.fetch = MIN_FETCH_LIMIT
              /\ (1 <= x /\ x <= MAX_LIMIT) => fout.fetch >= x
    /\ (fout.done /\ fin.f = "search_sizing" /\ fout.lim.ok) =>
          (fout.fetch >= fout.lim.val /\ fout.fetch <= MAX_LIMIT)

\* the fetch limit was capped at MAX_LIMIT for a limit whose tenfold exceeds it
C10_Witness ==
    fout.done /\ fin.f = "calculate_fetch_limit" /\ fin.limit = 60 /\ fout.fetch = 500

\* the record get_event_details found: results[0] of the upstream's answer
FoundRecord == last.raw[1]

\* C11: an event returned by search_events or upcoming_public has no description field;
\* a found-event result of get_event_details has one, holding the raw description, or
\* the empty string when the record has none.
C11_DescriptionIffRequested ==
    /\ (last.op \in {"search", "upcoming"} /\ last.ok) =>
          \A i \in 1..Len(last.result) : ~last.result[i].hasdesc
    /\ (last.op = "details" /\ last.ok /\ ~last.notfound) =>
          /\ last.event.hasdesc
          /\ last.event.descnull = FoundRecord.description.null
          /\ last.event.description = get_str(FoundRecord.description)

\* C11 for found records whose description is not JSON null
C11_DescriptionUnlessNull ==
    \/ (last.op = "details" /\ last.ok /\ ~last.notfound /\ FoundRecord.description.null)
    \/ C11_DescriptionIffRequested

\* the records of raw that are not empty, in order
RECURSIVE KeptRecords(_)
KeptRecords(raw) ==
    IF raw = <<>> THEN <<>>
    ELSE (IF is_empty(Head(raw)) THEN <<>> ELSE <<Head(raw)>>) \o KeptRecords(Tail(raw))

\* C12: upcoming_public of src/src/server.py asks the upstream for exactly the clamped
\* limit, and returns the normalization (without description) of the fetched records in
\* upstream order, leaving out only the records that normalize to None.
C12_UpcomingExact ==
    (impl = "modular" /\ last.op = "upcoming" /\ last.haskey) =>
        /\ last.key.limit = (IF last.limit > MAX_LIMIT THEN MAX_LIMIT ELSE last.limit)
        /\ last.fetched => (last.req.kind = "list" /\ last.req.key = last.key)
        /\ last.ok => LET kept == KeptRecords(last.raw) IN
                       /\ last.result = [i \in 1..Len(kept) |-> normalize(kept[i], FALSE)]
                       /\ \A i \in 1..Len(last.result) : ~last.result[i].absent

\* limit 501 went upstream as 500, and an empty record of the answer was left out
C12_Witness ==
    /\ impl = "modular" /\ last.op = "upcoming" /\ last.ok /\ last.fetched
    /\ last.limit = MAX_LIMIT + 1 /\ last.req.key.limit = MAX_LIMIT
    /\ last.raw = <<R5, R1>> /\ Len(last.result) = 1

\* C13: server_status raises nothing: it returns the configuration snapshot with the
\* cache_enabled flag and the cache's hits, misses, maxsize and currsize as they are at
\* the call, sends nothing upstream, and leaves the cache entries and counters as they were.
C13_StatusNeverRaises ==
    [][(calls' = calls + 1 /\ last'.op = "status")
        => /\ last'.ok /\ last'.err = ""
           /\ last'.cache_enabled = env.enable_cache
           /\ last'.stats = [hits |-> hits, misses |-> misses, maxsize |-> CACHE_SIZE, currsize |-> Len(cache)]
           /\ cache' = cache /\ hits' = hits /\ misses' = misses /\ sent' = sent]_vars

\* server_status reported one hit, one miss and one entry after two fetching calls
C13_Witness ==
    /\ last.op = "status" /\ last.ok /\ calls = 3
    /\ last.stats = [hits |-> 1, misses |-> 1, maxsize |-> CACHE_SIZE, currsize |-> 1]
    /\ hits = 1 /\ misses = 1 /\ Len(cache) = 1

\* C14: no request sent upstream carries an Authorization header, whatever the
\* environment holds.
C14_NoCredentials == last.req.kind # "none" => ~last.req.auth

\* C14 for the layered package alone
C14_NoCredentialsModular == impl = "modular" => C14_NoCredentials

\* the message _make_request gives each kind of failed request
MessageOf(kind) ==
    CASE kind = "timeout" -> "Request timed out"
      [] kind = "connection" -> "Connection failed"
      [] kind = "http403" -> "Access forbidden"
      [] kind = "http400" -> "Server error"
      [] kind = "http404" -> "Resource not found"
      [] OTHER -> "Failed to fetch data"

\* C15: in the layered package every failed list or detail request reaches the caller of
\* search_events, upcoming_public and get_event_details as a ValueError, the class the
\* validators raise, never as the transport's own exception; the messages for timeout,
\* connection failure, forbidden and server error differ from one another.
C15_ClassifiedErrors ==
    /\ (impl = "modular" /\ last.fetched /\ last.resp # "ok") =>
          /\ ~last.ok /\ last.exc = "ValueError"
          /\ last.err = MessageOf(last.resp)
    /\ \A k1, k2 \in {"timeout", "connection", "http403", "http400"} : MessageOf(k1) = MessageOf(k2) => k1 = k2

\* a search met a forbidden answer and raised the classified error for it
C15_Witness ==
    /\ impl = "modular" /\ last.op = "search" /\ last.fetched /\ last.resp = "http403"
    /\ ~last.ok /\ last.exc = "ValueError" /\ last.err = "Access forbidden"

\* the errors the validators and DateRange.calculate raise for an invalid argument
ValidationErrors ==
    {"keyword_empty", "keyword_blank", "keyword_long", "limit", "category", "event_id",
     "format_from", "format_to", "days_negative", "days_exceed", "inverted", "span"}

\* C16: a call of search_events, upcoming_public or get_event_details that fails
\* validation sends nothing upstream and leaves the cache entries and the hit and miss
\* counters as they were; no call of a tool sends more than one upstream request.
C16_InvalidInputNoFetch ==
    [][(calls' = calls + 1)
        => /\ sent' \in {sent, sent + 1}
           /\ sent' = sent + 1 <=> last'.req.kind # "none"
           /\ (last'.op \in {"search", "upcoming", "details"} /\ last'.err \in ValidationErrors)
                 => /\ ~last'.ok /\ ~last'.fetched /\ last'.req.kind = "none"
                    /\ sent' = sent /\ cache' = cache /\ hits' = hits /\ misses' = misses]_vars

\* an upcoming_public call with a negative category was refused while the cache held an entry
C16_Witness ==
    /\ last.op = "upcoming" /\ ~last.ok /\ last.err = "category" /\ last.req.kind = "none"
    /\ calls = 2 /\ sent = 1 /\ misses = 1 /\ hits = 0 /\ Len(cache) = 1

\* C17: the entries of the cache are record lists of successful fetches, each under
\* the key it was fetched for.  A search_events or upcoming_public call whose fetch
\* fails leaves the cache as it was, with no entry for the key; a call whose key has no
\* entry sends a request, so the call after a failed one with the same key fetches anew.
IsEntryOf(c, en) == \E j \in 1..Len(c) : c[j] = en

C17_FailedFetchNotCached ==
    [][(calls' = calls + 1 /\ last'.op \in {"search", "upcoming"}) =>
        /\ (last'.fetched /\ last'.resp # "ok") =>
               /\ ~last'.ok
               /\ cache' = cache
               /\ ~lru_has(cache', last'.key)
        /\ \A i \in 1..Len(cache') :
               \/ IsEntryOf(cache, cache'[i])
               \/ /\ last'.fetched /\ last'.resp = "ok"
                  /\ cache'[i] = [key |-> last'.key, val |-> last'.raw]
        /\ (last'.haskey /\ ~lru_has(cache, last'.key)) =>
               last'.fetched /\ sent' = sent + 1 /\ last'.req = ListRequest(last'.key, last'.req.auth)
        /\ (last.fetched /\ last.resp # "ok" /\ last'.haskey /\ last'.key = last.key) =>
               last'.fetched]_vars

\* a fetch failed after an earlier one had stored an entry under another key
C17_Witness ==
    /\ calls = 2 /\ last.op = "search" /\ last.fetched /\ last.resp = "timeout" /\ ~last.ok
    /\ Len(cache) = 1 /\ cache[1].key # last.key
    /\ misses = 2 /\ sent = 2

\* C18: the cache never holds more than CACHE_SIZE entries.  An entry leaves the cache
\* only when a successful fetch stores a key that has no entry while the cache is
\* full, and then exactly one entry leaves: the one whose latest use, by being stored
\* or by serving a hit, lies furthest back.
CachedKeys(c) == {c[i].key : i \in 1..Len(c)}
Evicted == CachedKeys(cache) \ CachedKeys(cache')

C18_LruEviction ==
    [][calls' = calls + 1 =>
        /\ Len(cache') <= CACHE_SIZE
        /\ Cardinality(CachedKeys(cache')) = Len(cache')
        /\ Evicted # {} =>
               /\ Len(cache) = CACHE_SIZE
               /\ last'.fetched /\ last'.resp = "ok" /\ last'.key \notin CachedKeys(cache)
               /\ Cardinality(Evicted) = 1
               /\ \A k \in Evicted : \A j \in CachedKeys(cache) : used[k] <= used[j]
        /\ (last'.fetched /\ last'.resp = "ok" /\ last'.op \in {"search", "upcoming"}) =>
               /\ last'.key \in CachedKeys(cache')
               /\ Len(cache) = CACHE_SIZE => Cardinality(Evicted) = 1
               /\ Len(cache) < CACHE_SIZE => Evicted = {} /\ Len(cache') = Len(cache) + 1]_vars

\* the cache was filled, the entry stored first served a hit, and the next new key
\* pushed out the entry stored second
C18_Witness ==
    /\ calls = CACHE_SIZE + 2 /\ hits = 1 /\ misses = CACHE_SIZE + 1
    /\ last.fetched /\ last.ok /\ Len(cache) = CACHE_SIZE
    /\ \E k \in DOMAIN used : k \notin CachedKeys(cache) /\ used[k] = 2
    /\ \E j \in CachedKeys(cache) : used[j] = CACHE_SIZE + 1

\* C19: search_events and upcoming_public share one cache, keyed by the category, the
\* two ends of the window and the limit sent upstream.  search_events sends
\* calculate_fetch_limit of its limit, upcoming_public its limit itself; when one of
\* the two tools has succeeded, a call of the other that comes to the same key sends
\* nothing and works on the record list the first call got.
SentLimit(out) ==
    IF out.op = "upcoming" THEN out.efflimit
    ELSE IF impl = "modular" THEN calculate_fetch_limit(out.efflimit)
    ELSE legacy_fetch_limit(out.efflimit)

C19_SharedCache ==
    [][calls' = calls + 1 =>
        /\ (last'.haskey /\ last'.op \in {"search", "upcoming"}) => last'.key.limit = SentLimit(last')
        /\ (/\ last.haskey /\ last.ok /\ last'.haskey /\ last'.key = last.key
            /\ {last.op, last'.op} = {"search", "upcoming"}) =>
               /\ ~last'.fetched /\ last'.req = NoRequest
               /\ sent' = sent /\ hits' = hits + 1 /\ misses' = misses
               /\ last'.ok /\ last'.raw = last.raw]_vars

\* upcoming_public over the window and with the limit search_events had sent was
\* served from the entry the search had stored
C19_Witness ==
    /\ calls = 2 /\ last.op = "upcoming" /\ last.ok /\ ~last.fetched
    /\ last.limit = MIN_FETCH_LIMIT
    /\ last.key = Key(0, isoformat(Today0), isoformat(Today0 + SEARCH_DEFAULT_DAYS), calculate_fetch_limit(1))
    /\ hits = 1 /\ misses = 1 /\ sent = 1

\* search_events was served from the entry an upcoming_public call had stored
C19_WitnessReverse ==
    /\ calls = 2 /\ last.op = "search" /\ last.ok /\ ~last.fetched
    /\ last.key \in DOMAIN served
    /\ hits = 1 /\ misses = 1 /\ sent = 1

\* C20: in src/src the ENABLE_CACHE setting changes nothing but the cache_enabled field
\* of server_status.  From any state the server reaches, every call of a tool sends
\* the same request, leaves the same cache and counters and returns the same result
\* with the setting on and with it off, so two runs given the same calls and answers
\* stay in step.
Flipped(e) == [e EXCEPT !.enable_cache = ~@]

C21_ClearCache ==
    [][calls' = calls + 1 =>
        /\ last'.op = "clear" =>
               /\ cache' = <<>>
               /\ [hits |-> hits', misses |-> misses', maxsize |-> CACHE_SIZE, currsize |-> Len(cache')]
                      = [hits |-> 0, misses |-> 0, maxsize |-> CACHE_SIZE, currsize |-> 0]
               /\ sent' = sent /\ last'.req = NoRequest
        /\ (last.op = "clear" /\ last'.haskey) =>
               /\ last'.fetched /\ sent' = sent + 1
               /\ last'.req.kind = "list" /\ last'.req.key = last'.key
               /\ hits' = 0 /\ misses' = 1
        /\ last'.op # "clear" => hits' >= hits /\ misses' >= misses
        /\ Len(cache') <= misses']_vars

\* a key was fetched and served from the cache, and then the cache was cleared
C21_Witness ==
    /\ calls = 3 /\ last.op = "clear"
    /\ cache = <<>> /\ hits = 0 /\ misses = 0 /\ sent = 1
    /\ \E k \in DOMAIN used : used[k] = 2

====
